---- MODULE Spec2Model ----
(***************************************************************************)
(* Matchmaking engine of diceball (src/main.go): the Player Registry       *)
(* (players), the Waiting Pool (pool), the Room Registry (rooms), the      *)
(* Matching Loop (matchPlayers), the Cleanup Task (cleanupOldRooms) and    *)
(* the request handlers handleJoin, handleCancel, handleStatus and         *)
(* statsHandler.                                                           *)
(*                                                                         *)
(* A *Player is a heap object: heap[o] is the object with address o, and   *)
(* players and pool hold addresses.  Two Joins with the same id allocate   *)
(* two objects that carry the same ID.  Everything a handler does between  *)
(* poolMutex.Lock() and poolMutex.Unlock() is one step when it touches     *)
(* only state guarded by that mutex; the Matching Loop and the Cleanup     *)
(* Task are split at every lock operation, because they hold two locks     *)
(* and because the Matching Loop's intermediate states are the subject of  *)
(* properties stated "while the Pool lock is free".                        *)
(*                                                                         *)
(* Player.CreatedAt is only displayed and is not modelled.  A room id      *)
(* (uuid.New().String()) is modelled as the next unused natural number,    *)
(* so room k is the k-th room created; the empty RoomID "" is NoRoom.      *)
(***************************************************************************)
EXTENDS Integers, Sequences, FiniteSets, TLC

\* Number of Join requests accepted over a behaviour (Player objects allocated).
MaxPlayers == 3

\* Caller-supplied ids; "" is the empty id the handlers reject.
IDs == {"", "A", "B"}

\* The handleStatus goroutines that can run at the same time.
Pollers == {"s1", "s2"}

NoPlayer == 0
NoRoom == 0

VARIABLES
  players,      \* map[string]*Player : id -> address
  rooms,        \* map[string][]string : room id -> <<id, id>>
  pool,         \* []*Player : sequence of addresses
  heap,         \* the Player objects allocated so far, by address
  uuidNext,     \* the next room id uuid.New() returns
  poolMutex,    \* "free" or the goroutine holding it
  roomMutex,    \* "free" or the goroutine holding it
  pcMatch,      \* position of the matchPlayers goroutine
  p1, p2,       \* locals of matchPlayers
  roomID,       \* local of matchPlayers
  pcCleanup,    \* position of the cleanupOldRooms goroutine
  pcStatus,     \* position of each handleStatus goroutine
  statusID,     \* its playerID
  statusPlayer, \* its player (address found by the lookup)
  statusOpp,    \* its opponentID (received from the result slot)
  lastResp,     \* the response most recently written by a handler
  matchedPolls, \* history: per address, how many Polls answered matched
  reapedIDs,    \* history: ids reaped by a successful Poll and not joined since
  limits,       \* the bounds of this behaviour: Joins accepted, Polls in progress
  pcStats,      \* position of the statsHandler goroutine
  stats         \* its locals: stats, waitingPlayers, roomsCopy

shared == <<players, rooms, pool, heap>>
matchVars == <<pcMatch, p1, p2, roomID, uuidNext>>
statusVars == <<pcStatus, statusID, statusPlayer, statusOpp>>
history == <<matchedPolls, reapedIDs, limits>>
statsVars == <<pcStats, stats>>
vars == <<players, rooms, pool, heap, uuidNext, poolMutex, roomMutex, pcMatch,
          p1, p2, roomID, pcCleanup, pcStatus, statusID, statusPlayer,
          statusOpp, lastResp, matchedPolls, reapedIDs, limits, pcStats,
          stats>>

(***************************************************************************)
(* Data                                                                    *)
(***************************************************************************)

\* &Player{ID: playerID, Matched: false, OpponentID: make(chan string, 1), RoomID: ""}
NewPlayer(id) ==
  [ID |-> id, Matched |-> FALSE, OpponentID |-> <<>>, RoomID |-> NoRoom]

ChanCap == 1

\* players[playerID] = player
MapPut(m, k, v) == [x \in (DOMAIN m) \cup {k} |-> IF x = k THEN v ELSE m[x]]

\* delete(players, playerID)
MapDelete(m, k) == [x \in (DOMAIN m) \ {k} |-> m[x]]

EmptyMap == [x \in {} |-> 0]

\* A response: the handler that wrote it and its status (an error by its kind).
Resp(op, status) == [op |-> op, status |-> status]

NoResp == Resp("none", "none")

\* The locals of statsHandler before it fills them.
NoStats == [TotalPlayers |-> 0, WaitingPlayers |-> 0, MatchedPlayers |-> 0,
            ActiveRooms |-> 0, WaitingPlayersList |-> {},
            ActiveRoomsList |-> EmptyMap]

\* The handleStatus requests between their lookup and their return.
InFlight == Cardinality({t \in Pollers : pcStatus[t] # "idle"})

(***************************************************************************)
(* Init: the package-level variables of src/main.go, the two background    *)
(* goroutines asleep, no request in progress.  A behaviour is bounded by   *)
(* its limits: the Joins it accepts, the handleStatus requests it runs at  *)
(* the same time, and whether it records the responses in lastResp.        *)
(***************************************************************************)
InitWith(l) ==
  /\ players = EmptyMap
  /\ rooms = EmptyMap
  /\ pool = <<>>
  /\ heap = <<>>
  /\ uuidNext = 1
  /\ poolMutex = "free"
  /\ roomMutex = "free"
  /\ pcMatch = "sleep"
  /\ p1 = NoPlayer
  /\ p2 = NoPlayer
  /\ roomID = NoRoom
  /\ pcCleanup = "sleep"
  /\ pcStatus = [t \in Pollers |-> "idle"]
  /\ statusID = [t \in Pollers |-> ""]
  /\ statusPlayer = [t \in Pollers |-> NoPlayer]
  /\ statusOpp = [t \in Pollers |-> ""]
  /\ lastResp = NoResp
  /\ matchedPolls = <<>>
  /\ reapedIDs = {}
  /\ limits = l
  /\ pcStats = "idle"
  /\ stats = NoStats

Init ==
  InitWith([players |-> MaxPlayers, polls |-> Cardinality(Pollers),
            responses |-> FALSE])

\* One Join fewer, the responses recorded.
InitResp ==
  InitWith([players |-> MaxPlayers - 1, polls |-> Cardinality(Pollers),
            responses |-> TRUE])

\* One Join more, one handleStatus request at a time.
InitWide ==
  InitWith([players |-> MaxPlayers + 1, polls |-> 1, responses |-> FALSE])

\* The response a handler leaves in lastResp.
Written(r) == IF limits.responses THEN r ELSE NoResp

(***************************************************************************)
(* handleJoin                                                              *)
(***************************************************************************)

\* Mutant: the new player is put at the front of the Pool.
JoinPool_Front(pl, o) == <<o>> \o pl

\* Mutant: the new player is appended twice.
JoinPool_Twice(pl, o) == pl \o <<o, o>>

\* pool = append(pool, player)
JoinPool(pl, o) == Append(pl, o)

\* Mutant: the empty id is not rejected.
HandleJoin_NoCheck(id) ==
  /\ poolMutex = "free"
  /\ Len(heap) < limits.players
  /\ heap' = Append(heap, NewPlayer(id))
  /\ players' = MapPut(players, id, Len(heap) + 1)
  /\ pool' = JoinPool(pool, Len(heap) + 1)
  /\ lastResp' = Written(Resp("join", "waiting"))
  /\ matchedPolls' = Append(matchedPolls, 0)
  /\ reapedIDs' = reapedIDs \ {id}
  /\ UNCHANGED <<rooms, matchVars, statusVars, poolMutex, roomMutex,
                 pcCleanup, limits, statsVars>>

HandleJoin(id) ==
  IF id = ""
  THEN /\ lastResp' = Written(Resp("join", "InvalidArgument"))
       /\ UNCHANGED <<shared, matchVars, statusVars, history, poolMutex,
                      roomMutex, pcCleanup, statsVars>>
  ELSE /\ poolMutex = "free"
       /\ Len(heap) < limits.players
       /\ LET o == Len(heap) + 1 IN
            /\ heap' = Append(heap, NewPlayer(id))
            /\ players' = MapPut(players, id, o)
            /\ pool' = JoinPool(pool, o)
       /\ lastResp' = Written(Resp("join", "waiting"))
       /\ matchedPolls' = Append(matchedPolls, 0)
       /\ reapedIDs' = reapedIDs \ {id}
       /\ UNCHANGED <<rooms, matchVars, statusVars, poolMutex, roomMutex,
                      pcCleanup, limits, statsVars>>

(***************************************************************************)
(* handleCancel                                                            *)
(***************************************************************************)

\* The index the loop "for i, p := range pool { if p.ID == playerID" stops at,
\* 0 when it runs to the end.
FirstIndex(pl, id) ==
  LET S == {i \in 1..Len(pl) : heap[pl[i]].ID = id} IN
    IF S = {} THEN 0 ELSE CHOOSE i \in S : \A j \in S : i <= j

\* pool = append(pool[:i], pool[i+1:]...); break
CancelPool(pl, id) ==
  LET i == FirstIndex(pl, id) IN
    IF i = 0 THEN pl
    ELSE SubSeq(pl, 1, i - 1) \o SubSeq(pl, i + 1, Len(pl))

HandleCancel(id) ==
  IF id = ""
  THEN /\ lastResp' = Written(Resp("cancel", "InvalidArgument"))
       /\ UNCHANGED <<shared, matchVars, statusVars, history, poolMutex,
                      roomMutex, pcCleanup, statsVars>>
  ELSE /\ poolMutex = "free"
       /\ players' = MapDelete(players, id)
       /\ pool' = CancelPool(pool, id)
       /\ lastResp' = Written(Resp("cancel", "cancelled"))
       /\ UNCHANGED <<rooms, heap, matchVars, statusVars, history, poolMutex,
                      roomMutex, pcCleanup, statsVars>>

(***************************************************************************)
(* handleStatus: the lookup under poolMutex, the select on the result      *)
(* slot with no lock held, and the reap under poolMutex.                   *)
(***************************************************************************)

\* Mutant: the receive reads the slot without emptying it.
ChanRecv_Peek(ch) == ch

\* case opponentID := <-player.OpponentID : what is left in the channel
ChanRecv(ch) == Tail(ch)

StatusLookup(t, id) ==
  /\ pcStatus[t] = "idle"
  /\ IF id = ""
     THEN /\ lastResp' = Written(Resp("status", "InvalidArgument"))
          /\ UNCHANGED <<pcStatus, statusID, statusPlayer>>
     ELSE /\ poolMutex = "free"
          /\ IF id \in DOMAIN players
             THEN /\ InFlight < limits.polls
                  /\ statusID' = [statusID EXCEPT ![t] = id]
                  /\ statusPlayer' = [statusPlayer EXCEPT ![t] = players[id]]
                  /\ pcStatus' = [pcStatus EXCEPT ![t] = "select"]
                  /\ UNCHANGED lastResp
             ELSE /\ lastResp' = Written(Resp("status", "NotFound"))
                  /\ UNCHANGED <<pcStatus, statusID, statusPlayer>>
  /\ UNCHANGED <<shared, matchVars, statusOpp, history, poolMutex, roomMutex,
                 pcCleanup, statsVars>>

\* Mutant: the player is reaped whether or not a result was received.
StatusSelect_ReapAlways(t) ==
  /\ pcStatus[t] = "select"
  /\ LET o == statusPlayer[t] IN
       IF Len(heap[o].OpponentID) > 0
       THEN /\ statusOpp' = [statusOpp EXCEPT ![t] = Head(heap[o].OpponentID)]
            /\ heap' = [heap EXCEPT ![o].OpponentID = ChanRecv(@)]
            /\ lastResp' = Written(Resp("status", "matched"))
            /\ matchedPolls' = [matchedPolls EXCEPT ![o] = @ + 1]
       ELSE /\ lastResp' = Written(Resp("status", "waiting"))
            /\ UNCHANGED <<heap, matchedPolls, statusOpp>>
  /\ pcStatus' = [pcStatus EXCEPT ![t] = "reap"]
  /\ UNCHANGED <<players, rooms, pool, matchVars, statusID, statusPlayer,
                 reapedIDs, limits, poolMutex, roomMutex, pcCleanup, statsVars>>

\* The handler returns: its locals go out of scope.
StatusSelect(t) ==
  /\ pcStatus[t] = "select"
  /\ LET o == statusPlayer[t] IN
       IF Len(heap[o].OpponentID) > 0
       THEN /\ statusOpp' = [statusOpp EXCEPT ![t] = Head(heap[o].OpponentID)]
            /\ heap' = [heap EXCEPT ![o].OpponentID = ChanRecv(@)]
            /\ lastResp' = Written(Resp("status", "matched"))
            /\ matchedPolls' = [matchedPolls EXCEPT ![o] = @ + 1]
            /\ pcStatus' = [pcStatus EXCEPT ![t] = "reap"]
            /\ UNCHANGED <<statusID, statusPlayer>>
       ELSE /\ lastResp' = Written(Resp("status", "waiting"))
            /\ pcStatus' = [pcStatus EXCEPT ![t] = "idle"]
            /\ statusID' = [statusID EXCEPT ![t] = ""]
            /\ statusPlayer' = [statusPlayer EXCEPT ![t] = NoPlayer]
            /\ UNCHANGED <<heap, matchedPolls, statusOpp>>
  /\ UNCHANGED <<players, rooms, pool, matchVars, reapedIDs, limits,
                 poolMutex, roomMutex, pcCleanup, statsVars>>

StatusReap(t) ==
  /\ pcStatus[t] = "reap"
  /\ poolMutex = "free"
  /\ players' = MapDelete(players, statusID[t])
  /\ reapedIDs' = reapedIDs \cup {statusID[t]}
  /\ pcStatus' = [pcStatus EXCEPT ![t] = "idle"]
  /\ statusID' = [statusID EXCEPT ![t] = ""]
  /\ statusPlayer' = [statusPlayer EXCEPT ![t] = NoPlayer]
  /\ statusOpp' = [statusOpp EXCEPT ![t] = ""]
  /\ UNCHANGED <<rooms, pool, heap, matchVars, matchedPolls, limits,
                 poolMutex, roomMutex, pcCleanup, lastResp, statsVars>>

(***************************************************************************)
(* matchPlayers                                                            *)
(***************************************************************************)

\* if len(pool) >= 2
MatchReady(pl) == Len(pl) >= 2

\* Mutant: only the first entry is removed.
PoolRest_OffByOne(pl) == SubSeq(pl, 2, Len(pl))

\* pool = pool[2:]
PoolRest(pl) == SubSeq(pl, 3, Len(pl))

MatchLock ==
  /\ pcMatch = "sleep"
  /\ poolMutex = "free"
  /\ poolMutex' = "match"
  /\ pcMatch' = "pair"
  /\ UNCHANGED <<shared, uuidNext, p1, p2, roomID, statusVars, history,
                 roomMutex, pcCleanup, lastResp, statsVars>>

\* p1 := pool[0]; p2 := pool[1]; roomID := uuid; RoomID and Matched of both
MatchPair ==
  /\ pcMatch = "pair"
  /\ IF MatchReady(pool)
     THEN /\ p1' = pool[1]
          /\ p2' = pool[2]
          /\ roomID' = uuidNext
          /\ uuidNext' = uuidNext + 1
          /\ heap' = [heap EXCEPT ![pool[1]].RoomID = uuidNext,
                                  ![pool[2]].RoomID = uuidNext,
                                  ![pool[1]].Matched = TRUE,
                                  ![pool[2]].Matched = TRUE]
          /\ pcMatch' = "slice"
     ELSE /\ pcMatch' = "unlock"
          /\ UNCHANGED <<p1, p2, roomID, uuidNext, heap>>
  /\ UNCHANGED <<players, rooms, pool, statusVars, history, poolMutex,
                 roomMutex, pcCleanup, lastResp, statsVars>>

MatchSlice ==
  /\ pcMatch = "slice"
  /\ pool' = PoolRest(pool)
  /\ pcMatch' = "roomlock"
  /\ UNCHANGED <<players, rooms, heap, uuidNext, p1, p2, roomID, statusVars,
                 history, poolMutex, roomMutex, pcCleanup, lastResp, statsVars>>

MatchRoomLock ==
  /\ pcMatch = "roomlock"
  /\ roomMutex = "free"
  /\ roomMutex' = "match"
  /\ pcMatch' = "insert"
  /\ UNCHANGED <<shared, uuidNext, p1, p2, roomID, statusVars, history,
                 poolMutex, pcCleanup, lastResp, statsVars>>

\* rooms[roomID] = []string{p1.ID, p2.ID}; roomMutex.Unlock()
MatchRoomInsert ==
  /\ pcMatch = "insert"
  /\ rooms' = MapPut(rooms, roomID, <<heap[p1].ID, heap[p2].ID>>)
  /\ roomMutex' = "free"
  /\ pcMatch' = "send1"
  /\ UNCHANGED <<players, pool, heap, uuidNext, p1, p2, roomID, statusVars,
                 history, poolMutex, pcCleanup, lastResp, statsVars>>

\* p1.OpponentID <- p2.ID : blocks while the channel is full
MatchSend1 ==
  /\ pcMatch = "send1"
  /\ Len(heap[p1].OpponentID) < ChanCap
  /\ heap' = [heap EXCEPT ![p1].OpponentID = Append(@, heap[p2].ID)]
  /\ pcMatch' = "send2"
  /\ UNCHANGED <<players, rooms, pool, uuidNext, p1, p2, roomID, statusVars,
                 history, poolMutex, roomMutex, pcCleanup, lastResp, statsVars>>

\* p2.OpponentID <- p1.ID
MatchSend2 ==
  /\ pcMatch = "send2"
  /\ Len(heap[p2].OpponentID) < ChanCap
  /\ heap' = [heap EXCEPT ![p2].OpponentID = Append(@, heap[p1].ID)]
  /\ pcMatch' = "unlock"
  /\ UNCHANGED <<players, rooms, pool, uuidNext, p1, p2, roomID, statusVars,
                 history, poolMutex, roomMutex, pcCleanup, lastResp, statsVars>>

\* poolMutex.Unlock(); time.Sleep(1 * time.Second); the locals go out of scope
MatchUnlock ==
  /\ pcMatch = "unlock"
  /\ poolMutex' = "free"
  /\ pcMatch' = "sleep"
  /\ p1' = NoPlayer
  /\ p2' = NoPlayer
  /\ roomID' = NoRoom
  /\ UNCHANGED <<shared, uuidNext, statusVars, history, roomMutex, pcCleanup,
                 lastResp, statsVars>>

(***************************************************************************)
(* cleanupOldRooms                                                         *)
(***************************************************************************)

\* Mutant: the condition of the older variant, !p1Exists && !p2Exists.
RoomDone_Both(roomPlayers) ==
  /\ roomPlayers[1] \notin DOMAIN players
  /\ roomPlayers[2] \notin DOMAIN players

\* !p1Exists || !p2Exists
RoomDone(roomPlayers) ==
  \/ roomPlayers[1] \notin DOMAIN players
  \/ roomPlayers[2] \notin DOMAIN players

\* Mutant: the Cleanup Task takes the Room Registry lock first and the Pool
\* lock second.
CleanupLockPool_RoomFirst ==
  \/ /\ pcCleanup = "sleep"
     /\ roomMutex = "free"
     /\ roomMutex' = "cleanup"
     /\ pcCleanup' = "poollock"
     /\ UNCHANGED <<shared, matchVars, statusVars, history, poolMutex,
                    lastResp, statsVars>>
  \/ /\ pcCleanup = "poollock"
     /\ poolMutex = "free"
     /\ poolMutex' = "cleanup"
     /\ pcCleanup' = "scan"
     /\ UNCHANGED <<shared, matchVars, statusVars, history, roomMutex,
                    lastResp, statsVars>>

CleanupLockPool ==
  /\ pcCleanup = "sleep"
  /\ poolMutex = "free"
  /\ poolMutex' = "cleanup"
  /\ pcCleanup' = "roomlock"
  /\ UNCHANGED <<shared, matchVars, statusVars, history, roomMutex, lastResp, statsVars>>

CleanupLockRoom ==
  /\ pcCleanup = "roomlock"
  /\ roomMutex = "free"
  /\ roomMutex' = "cleanup"
  /\ pcCleanup' = "scan"
  /\ UNCHANGED <<shared, matchVars, statusVars, history, poolMutex, lastResp, statsVars>>

\* for room, roomPlayers := range rooms { ... delete(rooms, room) }
CleanupScan ==
  /\ pcCleanup = "scan"
  /\ rooms' = [r \in {x \in DOMAIN rooms : ~RoomDone(rooms[x])} |-> rooms[r]]
  /\ pcCleanup' = "unlock"
  /\ UNCHANGED <<players, pool, heap, matchVars, statusVars, history,
                 poolMutex, roomMutex, lastResp, statsVars>>

\* roomMutex.Unlock(); poolMutex.Unlock()
CleanupUnlock ==
  /\ pcCleanup = "unlock"
  /\ roomMutex' = "free"
  /\ poolMutex' = "free"
  /\ pcCleanup' = "sleep"
  /\ UNCHANGED <<shared, matchVars, statusVars, history, lastResp, statsVars>>

(***************************************************************************)
(* statsHandler: the snapshot taken under both locks.  The rendering of    *)
(* the template from the locals is not modelled.                           *)
(***************************************************************************)

\* ServerStats{...}, waitingPlayers (a set: the map is ranged over in no
\* fixed order) and roomsCopy
Snapshot ==
  [TotalPlayers |-> Cardinality(DOMAIN players),
   WaitingPlayers |-> Len(pool),
   MatchedPlayers |-> Cardinality(DOMAIN players) - Len(pool),
   ActiveRooms |-> Cardinality(DOMAIN rooms),
   WaitingPlayersList |-> {players[id] : id \in {x \in DOMAIN players :
                                                  ~heap[players[x]].Matched}},
   ActiveRoomsList |-> rooms]

StatsLockPool ==
  /\ pcStats = "idle"
  /\ poolMutex = "free"
  /\ poolMutex' = "stats"
  /\ pcStats' = "roomlock"
  /\ UNCHANGED <<shared, matchVars, statusVars, history, roomMutex, pcCleanup,
                 lastResp, stats>>

StatsLockRoom ==
  /\ pcStats = "roomlock"
  /\ roomMutex = "free"
  /\ roomMutex' = "stats"
  /\ pcStats' = "read"
  /\ UNCHANGED <<shared, matchVars, statusVars, history, poolMutex, pcCleanup,
                 lastResp, stats>>

StatsRead ==
  /\ pcStats = "read"
  /\ stats' = Snapshot
  /\ pcStats' = "unlock"
  /\ UNCHANGED <<shared, matchVars, statusVars, history, poolMutex, roomMutex,
                 pcCleanup, lastResp>>

\* roomMutex.Unlock(); poolMutex.Unlock(); the handler renders and returns
StatsUnlock ==
  /\ pcStats = "unlock"
  /\ roomMutex' = "free"
  /\ poolMutex' = "free"
  /\ pcStats' = "idle"
  /\ stats' = NoStats
  /\ UNCHANGED <<shared, matchVars, statusVars, history, pcCleanup, lastResp>>

(***************************************************************************)
(* Specifications                                                          *)
(***************************************************************************)
Join == \E id \in IDs : HandleJoin(id)

Cancel == \E id \in IDs : HandleCancel(id)

Poll ==
  \E t \in Pollers :
    \/ \E id \in IDs : StatusLookup(t, id)
    \/ StatusSelect(t)
    \/ StatusReap(t)

MatchingLoop ==
  \/ MatchLock
  \/ MatchPair
  \/ MatchSlice
  \/ MatchRoomLock
  \/ MatchRoomInsert
  \/ MatchSend1
  \/ MatchSend2
  \/ MatchUnlock

CleanupTask ==
  \/ CleanupLockPool
  \/ CleanupLockRoom
  \/ CleanupScan
  \/ CleanupUnlock

Stats ==
  \/ StatsLockPool
  \/ StatsLockRoom
  \/ StatsRead
  \/ StatsUnlock

Next == Join \/ Cancel \/ Poll \/ MatchingLoop \/ CleanupTask \/ Stats

Spec == Init /\ [][Next]_vars

\* The same program with its responses observed.
SpecResp == InitResp /\ [][Next]_vars

SpecWide == InitWide /\ [][Next]_vars

\* The same program when no client ever calls /cancel.
NextNoCancel == Join \/ Poll \/ MatchingLoop \/ CleanupTask \/ Stats

SpecNoCancel == InitWide /\ [][NextNoCancel]_vars

\* Scheduling: the Matching Loop runs for ever and a goroutine blocked in
\* Lock() gets the mutex once it is released often enough (sync.Mutex hands
\* it to the longest waiter); the Cleanup Task, a snapshot and a Poll that
\* have started run to their end.  Requests arrive or not as clients please.
Fairness ==
  /\ SF_vars(MatchLock)
  /\ WF_vars(MatchingLoop)
  /\ WF_vars(CleanupLockRoom \/ CleanupScan \/ CleanupUnlock)
  /\ WF_vars(StatsLockRoom \/ StatsRead \/ StatsUnlock)
  /\ \A t \in Pollers : WF_vars(StatusSelect(t)) /\ SF_vars(StatusReap(t))

\* The program without /cancel under that scheduling.
SpecLive == InitWide /\ [][NextNoCancel]_vars /\ Fairness

(***************************************************************************)
(* Vocabulary of the properties                                            *)
(***************************************************************************)
Objects == 1..Len(heap)

RealIDs == IDs \ {""}

\* The ids held by the Pool entries, in Pool order.
PoolEntryIDs(pl) == [i \in 1..Len(pl) |-> heap[pl[i]].ID]

\* The Player objects that were paired into room r.
Members(r) == {o \in Objects : heap[o].RoomID = r}

\* What a Poll(id) issued now answers "matched" with: the Registry maps id to
\* a Player of room `room` whose result slot holds opp, or held it until a
\* handleStatus still in progress received it.
PollYieldsMatch(id, opp, room) ==
  /\ id \in DOMAIN players
  /\ heap[players[id]].RoomID = room
  /\ \/ heap[players[id]].OpponentID = <<opp>>
     \/ \E t \in Pollers : /\ pcStatus[t] = "reap"
                           /\ statusPlayer[t] = players[id]
                           /\ statusOpp[t] = opp

\* C1: when the Matching Loop has paired p1 and p2 (the tick is complete and
\* is about to release the Pool lock), Poll(p1.id) yields matched with
\* opponent p2.id, Poll(p2.id) yields matched with opponent p1.id, both with
\* the tick's room id, and that room id is the key of the Room {p1.id, p2.id}.
C1_PairingIsPolledSymmetrically ==
  (pcMatch = "unlock" /\ p1 # NoPlayer) =>
    /\ roomID \in DOMAIN rooms
    /\ rooms[roomID] = <<heap[p1].ID, heap[p2].ID>>
    /\ PollYieldsMatch(heap[p1].ID, heap[p2].ID, roomID)
    /\ PollYieldsMatch(heap[p2].ID, heap[p1].ID, roomID)

\* C3: every Room holds exactly two player ids and the two are distinct.
C3_RoomsHoldTwoDistinctIDs ==
  \A r \in DOMAIN rooms :
    /\ Len(rooms[r]) = 2
    /\ rooms[r][1] # rooms[r][2]

C4_FIFOPairing ==
  /\ [](\A i, j \in 1..Len(pool) : i < j => pool[i] < pool[j])
  /\ [](\A o \in Objects :
          heap[o].RoomID # NoRoom => heap[o].RoomID = (o + 1) \div 2)
  /\ [](\A r \in DOMAIN rooms : rooms[r] = <<heap[2 * r - 1].ID, heap[2 * r].ID>>)
  /\ [][MatchSlice =>
          /\ <<p1, p2>> = <<pool[1], pool[2]>>
          /\ pool' = SubSeq(pool, 3, Len(pool))]_vars

\* Two pairs have been created, the first two joiners and then the next two.
C4_Witness ==
  /\ Len(heap) >= 4
  /\ DOMAIN rooms = {1, 2}
  /\ Members(1) = {1, 2}
  /\ Members(2) = {3, 4}
  /\ pcMatch = "sleep"

\* C5: whenever the Pool lock is free, no Player in the Pool is marked matched.
C5_NoMatchedPlayerInPool ==
  poolMutex = "free" => \A i \in 1..Len(pool) : ~heap[pool[i]].Matched

\* The lock is free after a tick that paired two players and left a third
\* waiting.
C5_Witness ==
  /\ poolMutex = "free"
  /\ Len(pool) = 1
  /\ \E o \in Objects : heap[o].Matched
  /\ pcMatch = "sleep"

\* C6: when Cancel(id) completes for an id that is registered and not yet
\* matched, no entry with that id is left in the Registry or in the Pool.
C6_CancelRemovesEveryEntry ==
  [][\A id \in RealIDs :
       (/\ id \in DOMAIN players
        /\ ~heap[players[id]].Matched
        /\ HandleCancel(id)) =>
         /\ id \notin DOMAIN players'
         /\ \A i \in 1..Len(pool') : PoolEntryIDs(pool')[i] # id]_vars

\* C7: Cancel is idempotent: the state a Cancel(id) leaves is the state a
\* second Cancel(id) would leave, and a Cancel of an id that is in neither
\* the Registry nor the Pool answers cancelled and changes nothing.
C7_CancelIdempotent ==
  [][\A id \in RealIDs :
       HandleCancel(id) =>
         /\ lastResp' = Resp("cancel", "cancelled")
         /\ MapDelete(players', id) = players'
         /\ CancelPool(pool', id) = pool'
         /\ (id \notin DOMAIN players /\ FirstIndex(pool, id) = 0)
              => UNCHANGED <<players, pool, rooms, heap>>]_vars

\* C8: a Poll answered waiting changes neither the Registry, the Pool, the
\* Room Registry nor any Player (result slots included) and ends the request;
\* while only one Join has ever been accepted, every Poll that finds the
\* player is answered waiting.
C8_WaitingPollHasNoEffect ==
  /\ [][\A t \in Pollers :
          (StatusSelect(t) /\ heap[statusPlayer[t]].OpponentID = <<>>) =>
            /\ lastResp' = Resp("status", "waiting")
            /\ pcStatus'[t] = "idle"
            /\ UNCHANGED <<players, pool, rooms, heap>>]_vars
  /\ [][\A t \in Pollers :
          (StatusSelect(t) /\ Len(heap) = 1) =>
            lastResp' = Resp("status", "waiting")]_vars
  /\ [](Len(heap) <= 1 => rooms = EmptyMap /\ \A t \in Pollers : pcStatus[t] # "reap")

\* The only player that ever joined has polled and was answered waiting.
C8_Witness ==
  /\ Len(heap) = 1
  /\ DOMAIN players = {heap[1].ID}
  /\ pool = <<1>>
  /\ lastResp = Resp("status", "waiting")

\* C9: a Join with the empty id is answered InvalidArgument and a Poll on a
\* (non-empty) id absent from the Registry is answered NotFound, and neither
\* changes the Registry, the Pool, the Room Registry or any Player.
C9_RejectedRequestsChangeNothing ==
  /\ [][HandleJoin("") =>
          /\ lastResp' = Resp("join", "InvalidArgument")
          /\ UNCHANGED <<players, pool, rooms, heap>>]_vars
  /\ [][\A t \in Pollers : \A id \in RealIDs \ DOMAIN players :
          StatusLookup(t, id) =>
            /\ lastResp' = Resp("status", "NotFound")
            /\ pcStatus'[t] = "idle"
            /\ UNCHANGED <<players, pool, rooms, heap>>]_vars

\* A Join with the empty id has been rejected while a player was waiting.
C9_Witness ==
  /\ lastResp = Resp("join", "InvalidArgument")
  /\ Len(pool) = 1
  /\ "" \notin DOMAIN players

\* Room r pairs two different ids, and both of its Players have been answered
\* matched and have been reaped.
BothReaped(r) ==
  /\ Cardinality(Members(r)) = 2
  /\ rooms[r][1] # rooms[r][2]
  /\ \A o \in Members(r) :
       /\ matchedPolls[o] >= 1
       /\ \A t \in Pollers : statusPlayer[t] # o

\* C10: a Cleanup run leaves no Room whose two players have both polled
\* successfully and been reaped.
C10_CleanupRemovesConsumedRooms ==
  pcCleanup = "unlock" => \A r \in DOMAIN rooms : ~BothReaped(r)

\* C11: a Cancel(id) of a player that is already matched leaves the Room
\* Registry and the opponent's Player (result slot included) unchanged, and
\* if a Poll on the opponent's id yielded matched with id and the room before
\* the Cancel, it still does after it.
C11_CancelAfterMatchKeepsMatch ==
  [][\A id \in RealIDs : \A o \in Objects :
       (/\ id \in DOMAIN players
        /\ players[id] = o
        /\ heap[o].Matched
        /\ HandleCancel(id)) =>
         /\ rooms' = rooms
         /\ \A q \in Members(heap[o].RoomID) \ {o} :
              \A qid \in {heap[q].ID} : \A r \in {heap[o].RoomID} :
                /\ heap'[q] = heap[q]
                /\ PollYieldsMatch(qid, id, r) => PollYieldsMatch(qid, id, r)']_vars

\* C12: of the Poll requests for one id that are in progress at the same
\* time, at most one has been answered matched (has received from a result
\* slot and is about to reap).
C12_ConcurrentPollsOneMatched ==
  \A t, u \in Pollers :
    (t # u /\ pcStatus[t] = "reap" /\ pcStatus[u] = "reap")
      => statusID[t] # statusID[u]

\* C13: the Room Registry lock is only ever held by the goroutine that holds
\* the Pool lock (it is acquired second and released first, and the Pool lock
\* is never acquired by a holder of the Room Registry lock), and the goroutine
\* that holds the Pool lock can always take its next step: no reachable state
\* is a deadlock.
C13_LockOrderNoDeadlock ==
  /\ [](roomMutex # "free" => poolMutex = roomMutex)
  /\ [][(roomMutex' # roomMutex /\ roomMutex' # "free")
          => (poolMutex = roomMutex' /\ roomMutex = "free")]_vars
  /\ [][(poolMutex' # poolMutex /\ poolMutex' # "free")
          => (poolMutex = "free" /\ roomMutex = "free")]_vars
  /\ [](poolMutex = "match" => ENABLED MatchingLoop)
  /\ [](poolMutex = "cleanup" => ENABLED CleanupTask)
  /\ [](poolMutex = "stats" => ENABLED Stats)
  /\ [](poolMutex = "free" =>
          /\ pcMatch = "sleep" /\ ENABLED MatchLock
          /\ pcCleanup = "sleep" /\ ENABLED CleanupLockPool
          /\ pcStats = "idle" /\ ENABLED StatsLockPool
          /\ \A t \in Pollers : pcStatus[t] = "reap" => ENABLED StatusReap(t))

\* The snapshot holds both locks while a Room exists and a Poll that was
\* answered matched waits for the Pool lock to reap.
C13_Witness ==
  /\ poolMutex = "stats"
  /\ roomMutex = "stats"
  /\ rooms # EmptyMap
  /\ pcMatch = "sleep"
  /\ pcCleanup = "sleep"
  /\ \E t \in Pollers : pcStatus[t] = "reap"

\* C14: when the Matching Loop is about to send into a Player's result slot,
\* the slot is empty and has never been written (no Poll has received from
\* it), so the send is enabled; the two Players of a pairing are different
\* objects; and no slot ever holds more than its one value.
C14_SendNeverBlocks ==
  /\ [](pcMatch = "send1" =>
          /\ heap[p1].OpponentID = <<>>
          /\ matchedPolls[p1] = 0
          /\ p1 # p2
          /\ ENABLED MatchSend1)
  /\ [](pcMatch = "send2" =>
          /\ heap[p2].OpponentID = <<>>
          /\ matchedPolls[p2] = 0
          /\ ENABLED MatchSend2)
  /\ [](\A o \in Objects :
          /\ Len(heap[o].OpponentID) <= ChanCap
          /\ Len(heap[o].OpponentID) + matchedPolls[o] <= 1
          /\ heap[o].OpponentID # <<>> => heap[o].Matched)
  /\ [][MatchSend1 => Len(heap'[p1].OpponentID) = 1]_vars
  /\ [][MatchSend2 => Len(heap'[p2].OpponentID) = 1]_vars

\* An id has joined three times; two of its Players have been paired and
\* both sends of that tick have completed.
C14_Witness ==
  /\ pcMatch = "unlock"
  /\ p1 # NoPlayer
  /\ heap[p1].OpponentID # <<>>
  /\ heap[p2].OpponentID # <<>>
  /\ Len(heap) = 3
  /\ \A o \in Objects : heap[o].ID = heap[1].ID

\* The Matching Loop has completed a pairing: the two Players have left the
\* Pool, their Room is recorded and both result slots have been written.
TickDone ==
  /\ pcMatch = "unlock"
  /\ p1 # NoPlayer
  /\ \A i \in 1..Len(pool) : pool[i] \notin {p1, p2}
  /\ roomID \in DOMAIN rooms
  /\ rooms[roomID] = <<heap[p1].ID, heap[p2].ID>>
  /\ \A o \in {p1, p2} : Len(heap[o].OpponentID) + matchedPolls[o] = 1

\* The Player created by the most recent Join of id.
LastJoined(id) ==
  CHOOSE o \in Objects :
    /\ heap[o].ID = id
    /\ \A q \in Objects : heap[q].ID = id => q <= o

\* The most recent Join of id has been answered matched, or is being
\* answered, or the next Poll(id) will be.
Delivered(id) ==
  LET o == LastJoined(id) IN
    \/ matchedPolls[o] >= 1
    \/ /\ id \in DOMAIN players
       /\ players[id] = o
       /\ heap[o].OpponentID # <<>>

\* C15: when no Cancel occurs, a Pool of two or more entries leads to a
\* completed pairing of its two front-most entries; the Pool eventually holds
\* at most one entry for good, and from then on every id that has joined and
\* is not the one left in the Pool has been answered matched or is answered
\* matched by its next Poll.
C15_MatchingProgress ==
  /\ [][(MatchPair /\ MatchReady(pool)) => <<p1', p2'>> = <<pool[1], pool[2]>>]_vars
  /\ (Len(pool) >= 2 /\ pcMatch = "sleep") ~> TickDone
  /\ <>[](Len(pool) <= 1)
  /\ <>[](\A o \in Objects :
            (\A i \in 1..Len(pool) : heap[pool[i]].ID # heap[o].ID)
              => Delivered(heap[o].ID))

\* C16: the scan of a Cleanup run keeps exactly the Rooms whose two member ids
\* are both in the Registry, with their members unchanged, and deletes the
\* others; no step of the run changes the Registry, the Pool or any Player
\* (result slots included), and the Registry and the Pool stay as they are
\* for the whole run.
C16_CleanupDeletesExactly ==
  /\ [][CleanupScan =>
          /\ DOMAIN rooms' = {r \in DOMAIN rooms :
                                /\ rooms[r][1] \in DOMAIN players
                                /\ rooms[r][2] \in DOMAIN players}
          /\ \A r \in DOMAIN rooms' : rooms'[r] = rooms[r]]_vars
  /\ [][CleanupTask => UNCHANGED <<players, pool, heap>>]_vars
  /\ [][(pcCleanup # "sleep") => UNCHANGED <<players, pool>>]_vars
  /\ [](pcCleanup = "unlock" =>
          \A r \in DOMAIN rooms : {rooms[r][1], rooms[r][2]} \subseteq DOMAIN players)

\* The first Room has been deleted and a run has just kept the second, whose
\* two players are both registered.
C16_Witness ==
  /\ pcCleanup = "unlock"
  /\ uuidNext = 3
  /\ DOMAIN rooms = {2}
  /\ rooms[2][1] # rooms[2][2]
  /\ \E o \in Members(1) : matchedPolls[o] = 1

\* C17: whenever the Pool lock is free, every Pool entry is the Player the
\* Registry maps the entry's id to, and no two Pool entries carry the same id.
C17_PoolAgreesWithRegistry ==
  poolMutex = "free" =>
    /\ \A i \in 1..Len(pool) :
         /\ heap[pool[i]].ID \in DOMAIN players
         /\ players[heap[pool[i]].ID] = pool[i]
    /\ \A i, j \in 1..Len(pool) :
         i # j => heap[pool[i]].ID # heap[pool[j]].ID

\* C18: the reap of a Poll removes from the Registry no Player other than the
\* one whose result slot that Poll received from.
C18_ReapConfinedToConsumedPlayer ==
  [][\A t \in Pollers :
       StatusReap(t) =>
         \A id \in DOMAIN players \ DOMAIN players' :
           players[id] = statusPlayer[t]]_vars

\* C19: when a Poll is answered matched, the room id it returns is a key of
\* the Room Registry and that Room's members are the polled id and the
\* opponent id returned.
C19_NoStaleRoomReference ==
  [][\A t \in Pollers :
       (StatusSelect(t) /\ heap[statusPlayer[t]].OpponentID # <<>>) =>
         /\ heap[statusPlayer[t]].RoomID \in DOMAIN rooms
         /\ {rooms[heap[statusPlayer[t]].RoomID][1],
             rooms[heap[statusPlayer[t]].RoomID][2]}
              = {statusID[t], Head(heap[statusPlayer[t]].OpponentID)}]_vars

\* C20: no step of the snapshot changes the Registry, the Pool, the Room
\* Registry or a Player, and in the counters it has read waitingPlayers is at
\* most totalPlayers and matchedPlayers is not negative and is the number of
\* registered Players whose matched flag is set.
C20_SnapshotCountersConsistent ==
  /\ [][Stats => UNCHANGED <<players, pool, rooms, heap>>]_vars
  /\ [](pcStats = "unlock" =>
          /\ stats.WaitingPlayers <= stats.TotalPlayers
          /\ stats.MatchedPlayers >= 0
          /\ stats.MatchedPlayers =
               Cardinality({id \in DOMAIN players : heap[players[id]].Matched}))

====
